---- MODULE Spec2Model ----
(***************************************************************************)
(* Model of the MRtrix3 denoising command and its threading support:       *)
(*   - Thread::number_of_threads      (thread-count resolution, cached)    *)
(*   - Thread::__Backend              (serialised print / report hooks)    *)
(*   - DenoisingFunctor::load_data    (sliding-window extraction)          *)
(*   - DenoisingFunctor::operator()   (threshold loop, truncation, output) *)
(*   - usage / run of dwidenoise      (window-size option)                 *)
(* Each part has its own specification; the variables of the other parts   *)
(* are held fixed in it.                                                   *)
(***************************************************************************)
EXTENDS Integers, Sequences, FiniteSets, TLC

(***************************************************************************)
(* Bounds of the model.                                                    *)
(***************************************************************************)
MaxThreads == 2
MaxEnvLen == 2
MaxCalls == 3
NWorkers == 2
MaxSize == 4
DimX == 3
DimY == 3
DimZ == 3
NChannels == 2
MaxM == 3
MaxLam == 4

VARIABLES
  \* ---- thread-count resolution
  nthreads_opt,          \* App::get_options ("nthreads"): absent, or its value
  from_env,              \* getenv ("MRTRIX_NTHREADS"): absent (null), or a string
  config_nthreads,       \* the NumberOfThreads configuration entry: absent, or its value
  hardware_concurrency,  \* std::thread::hardware_concurrency()
  number_of_threads_cache, \* the file-static __number_of_threads
  nt_result,             \* outcome of the last call of number_of_threads
  calls,                 \* number of calls of number_of_threads made so far
  \* ---- Backend: the print / report hooks and the threads that call them
  print,                 \* the process-wide hook MR::print
  report_to_user_func,   \* the process-wide hook MR::report_to_user_func
  previous_print_func,   \* __Backend::previous_print_func
  previous_report_to_user_func, \* __Backend::previous_report_to_user_func
  backend,               \* __Backend::backend is not null
  refcount,              \* backend->refcount
  mutex,                 \* __Backend::mutex: the set of threads holding it
  tpc,                   \* where each thread is
  twrap,                 \* the wrapper a thread is in, if any
  tfn,                   \* the print / report function a thread is executing, if any
  orig_print,            \* the print function installed at program start
  orig_report,           \* the report function installed at program start
  \* ---- dwidenoise: run and the DenoisingFunctor
  dwi_kind,              \* which input volume the run was given
  dn_pc,                 \* where the run is
  window_size,           \* the window size run() passes to the functor
  extent,                \* DenoisingFunctor::extent
  n,                     \* DenoisingFunctor::n, the number of columns of X
  X,                     \* DenoisingFunctor::X, as the sequence of its columns
  pos,                   \* DenoisingFunctor::pos
  index,                 \* the spatial cursor of dwi: index(0), index(1), index(2)
  k,                     \* the column counter of load_data
  centre,                \* the position the loop gave the functor
  reads,                 \* the positions load_data has read a channel vector at
  centre_col,            \* the column load_data copied the centre's channel vector into
  with_noise,            \* the noise option was given
  X_form,                \* what X holds: the window's samples, or their denoised form
  sigma,                 \* DenoisingFunctor::sigma
  out_index,             \* the spatial cursor of out
  noise_index,           \* the spatial cursor of noise
  out_row,               \* the channel vector this call wrote to out, if any
  noise_value,           \* the value this call wrote to noise, if any
  writes,                \* the image locations this call has written
  later_call,            \* the functor has been called before the call in progress
  \* ---- DenoisingFunctor::operator(): the threshold loop on its own
  th_m,                  \* DenoisingFunctor::m, the number of channels
  th_n,                  \* DenoisingFunctor::n, the number of window columns
  th_s,                  \* the singular values s, each held as its square
  lam,                   \* the eigenvalues lam, in units of 1/n
  clam,                  \* the reverse cumulative sums clam, in units of 1/n
  th_p,                  \* the loop index p
  sigsq1,                \* sigsq1, a fraction in units of 1/n
  sigsq2,                \* sigsq2, held as the fraction that is its square
  broke,                 \* the loop was left by its break
  th_sigma,              \* DenoisingFunctor::sigma: NaN, or the fraction that is its square
  th_pc                  \* where the threshold computation is

nt_vars == << nthreads_opt, from_env, config_nthreads, hardware_concurrency,
              number_of_threads_cache, nt_result, calls >>

be_vars == << print, report_to_user_func, previous_print_func,
              previous_report_to_user_func, backend, refcount, mutex, tpc, twrap,
              tfn, orig_print, orig_report >>

dn_vars == << dwi_kind, dn_pc, window_size, extent, n, X, pos, index, k, centre,
              reads, centre_col, with_noise, X_form, sigma, out_index,
              noise_index, out_row, noise_value, writes, later_call >>

th_vars == << th_m, th_n, th_s, lam, clam, th_p, sigsq1, sigsq2, broke,
              th_sigma, th_pc >>

vars == << nt_vars, be_vars, dn_vars, th_vars >>

\* what the actions of one part leave alone: the variables of the other parts
outside_nt == << be_vars, dn_vars, th_vars >>
outside_be == << nt_vars, dn_vars, th_vars >>
outside_dn == << nt_vars, be_vars, th_vars >>
outside_th == << nt_vars, be_vars, dn_vars >>

(***************************************************************************)
(* Thread-count resolution                                                 *)
(***************************************************************************)
\* an optional value: absent, or present with a value
Absent == << >>
Present(v) == << v >>
ValueOf(o) == o[1]

\* characters an environment string is made of in the model
EnvChars == { "0", "2", "x" }

RECURSIVE SeqsUpTo(_)
SeqsUpTo(len) ==
  IF len = 0 THEN { << >> }
  ELSE LET shorter == SeqsUpTo(len - 1)
       IN  shorter \cup { Append(s, c) : s \in { u \in shorter : Len(u) = len - 1 }, c \in EnvChars }

EnvStrings == SeqsUpTo(MaxEnvLen)

EnvValues == { Absent } \cup { Present(s) : s \in EnvStrings }

ThreadCounts == 0 .. MaxThreads

IsDigit(c) == c \in { "0", "1", "2", "3", "4", "5", "6", "7", "8", "9" }

DigitVal(c) ==
  CASE c = "0" -> 0 [] c = "1" -> 1 [] c = "2" -> 2 [] c = "3" -> 3 [] c = "4" -> 4
    [] c = "5" -> 5 [] c = "6" -> 6 [] c = "7" -> 7 [] c = "8" -> 8 [] c = "9" -> 9

RECURSIVE DecimalValue(_)
DecimalValue(s) ==
  IF s = << >> THEN 0
  ELSE DecimalValue(SubSeq(s, 1, Len(s) - 1)) * 10 + DigitVal(s[Len(s)])

\* to<size_t> (string): the parsed value, or a failure when the string is not
\* an unsigned integer
to_size_t(s) ==
  IF s # << >> /\ \A i \in 1 .. Len(s) : IsDigit(s[i])
  THEN [ ok |-> TRUE, value |-> DecimalValue(s) ]
  ELSE [ ok |-> FALSE, value |-> 0 ]

\* File::Config::get_int (key, default)
Config_get_int(entry, default) == IF entry = Absent THEN default ELSE ValueOf(entry)

NoResult == [ kind |-> "none", value |-> 0, consulted |-> FALSE ]
Returned(v, c) == [ kind |-> "value", value |-> v, consulted |-> c ]
Thrown == [ kind |-> "error", value |-> 0, consulted |-> TRUE ]

\* number_of_threads with the parse failure swallowed: an unparseable
\* MRTRIX_NTHREADS falls through to the configuration default
number_of_threads_env_fallthrough ==
  IF number_of_threads_cache # 0
  THEN [ result |-> Returned(number_of_threads_cache, FALSE), cache |-> number_of_threads_cache ]
  ELSE IF nthreads_opt # Absent
  THEN [ result |-> Returned(ValueOf(nthreads_opt), TRUE), cache |-> ValueOf(nthreads_opt) ]
  ELSE IF from_env # Absent /\ to_size_t(ValueOf(from_env)).ok
  THEN LET parsed == to_size_t(ValueOf(from_env))
       IN  [ result |-> Returned(parsed.value, TRUE), cache |-> parsed.value ]
  ELSE LET v == Config_get_int(config_nthreads, hardware_concurrency)
       IN  [ result |-> Returned(v, TRUE), cache |-> v ]

\* One call of number_of_threads(): what it returns (or that it throws) and
\* the value __number_of_threads has afterwards.
number_of_threads ==
  IF number_of_threads_cache # 0
  THEN [ result |-> Returned(number_of_threads_cache, FALSE), cache |-> number_of_threads_cache ]
  ELSE IF nthreads_opt # Absent
  THEN [ result |-> Returned(ValueOf(nthreads_opt), TRUE), cache |-> ValueOf(nthreads_opt) ]
  ELSE IF from_env # Absent
  THEN LET parsed == to_size_t(ValueOf(from_env))
       IN  IF parsed.ok
           THEN [ result |-> Returned(parsed.value, TRUE), cache |-> parsed.value ]
           ELSE [ result |-> Thrown, cache |-> number_of_threads_cache ]
  ELSE LET v == Config_get_int(config_nthreads, hardware_concurrency)
       IN  [ result |-> Returned(v, TRUE), cache |-> v ]

InitNT ==
  /\ nthreads_opt \in { Absent } \cup { Present(v) : v \in ThreadCounts }
  /\ from_env \in EnvValues
  /\ config_nthreads \in { Absent } \cup { Present(v) : v \in ThreadCounts }
  /\ hardware_concurrency \in ThreadCounts
  /\ number_of_threads_cache = 0
  /\ nt_result = NoResult
  /\ calls = 0

CallNumberOfThreads ==
  /\ calls < MaxCalls
  /\ calls' = calls + 1
  /\ nt_result' = number_of_threads.result
  /\ number_of_threads_cache' = number_of_threads.cache
  /\ UNCHANGED << nthreads_opt, from_env, config_nthreads, hardware_concurrency >>
  /\ UNCHANGED outside_nt

\* the environment variable is changed (setenv / unsetenv) between two calls
SetEnv ==
  /\ calls < MaxCalls
  /\ \E e \in EnvValues :
       /\ e # from_env
       /\ from_env' = e
  /\ UNCHANGED << nthreads_opt, config_nthreads, hardware_concurrency,
                  number_of_threads_cache, nt_result, calls >>
  /\ UNCHANGED outside_nt

\* the thread-count part before any call, with nothing set
QuietNT ==
  /\ nthreads_opt = Absent
  /\ from_env = Absent
  /\ config_nthreads = Absent
  /\ hardware_concurrency = 1
  /\ number_of_threads_cache = 0
  /\ nt_result = NoResult
  /\ calls = 0

(***************************************************************************)
(* Backend: serialised print / report hooks                                *)
(***************************************************************************)
Main == 0
Workers == 1 .. NWorkers
Threads == { Main } \cup Workers

\* the functions a program installs in the two hooks at start-up
PrintFuncs == { "cmdline_print_func", "gui_print_func" }
ReportFuncs == { "cmdline_report_to_user_func", "gui_report_to_user_func" }

Wrappers == { "thread_print_func", "thread_report_to_user_func" }

\* __Backend::__Backend () installing the wrappers before it records the hooks
Backend_ctor_install_first ==
  [ refcount |-> 0,
    previous_print_func |-> "thread_print_func",
    previous_report_to_user_func |-> "thread_report_to_user_func",
    print |-> "thread_print_func",
    report_to_user_func |-> "thread_report_to_user_func" ]

\* __Backend::__Backend (): the values the constructor leaves
Backend_ctor ==
  [ refcount |-> 0,
    previous_print_func |-> print,
    previous_report_to_user_func |-> report_to_user_func,
    print |-> "thread_print_func",
    report_to_user_func |-> "thread_report_to_user_func" ]

\* ~__Backend with the report hook left as it is
Backend_dtor_print_only ==
  [ print |-> previous_print_func,
    report_to_user_func |-> report_to_user_func ]

\* __Backend::~__Backend (): the values the destructor leaves
Backend_dtor ==
  [ print |-> previous_print_func,
    report_to_user_func |-> previous_report_to_user_func ]

InitBE ==
  /\ print \in PrintFuncs
  /\ report_to_user_func \in ReportFuncs
  /\ orig_print = print
  /\ orig_report = report_to_user_func
  /\ previous_print_func = "nullptr"
  /\ previous_report_to_user_func = "nullptr"
  /\ backend = FALSE
  /\ refcount = 0
  /\ mutex = { }
  /\ tpc = [ t \in Threads |-> IF t = Main THEN "idle" ELSE "off" ]
  /\ twrap = [ t \in Threads |-> "none" ]
  /\ tfn = [ t \in Threads |-> "none" ]

\* the Backend part of a program that starts no thread and prints nothing
QuietBE ==
  /\ InitBE
  /\ print = "cmdline_print_func"
  /\ report_to_user_func = "cmdline_report_to_user_func"

\* acquire: the main thread starts worker t; the first reference constructs
\* the backend
register_thread(t) ==
  /\ tpc[Main] = "idle"
  /\ tpc[t] = "off"
  /\ IF ~ backend
     THEN /\ backend' = TRUE
          /\ refcount' = Backend_ctor.refcount + 1
          /\ previous_print_func' = Backend_ctor.previous_print_func
          /\ previous_report_to_user_func' = Backend_ctor.previous_report_to_user_func
          /\ print' = Backend_ctor.print
          /\ report_to_user_func' = Backend_ctor.report_to_user_func
     ELSE /\ refcount' = refcount + 1
          /\ UNCHANGED << backend, previous_print_func, previous_report_to_user_func,
                          print, report_to_user_func >>
  /\ tpc' = [ tpc EXCEPT ![t] = "idle" ]
  /\ UNCHANGED << mutex, twrap, tfn, orig_print, orig_report >>
  /\ UNCHANGED outside_be

\* release: the main thread has joined worker t; the last reference destroys
\* the backend
unregister_thread(t) ==
  /\ tpc[Main] = "idle"
  /\ tpc[t] = "idle"
  /\ backend
  /\ IF refcount - 1 = 0
     THEN /\ backend' = FALSE
          /\ refcount' = 0
          /\ print' = Backend_dtor.print
          /\ report_to_user_func' = Backend_dtor.report_to_user_func
     ELSE /\ refcount' = refcount - 1
          /\ UNCHANGED << backend, print, report_to_user_func >>
  /\ tpc' = [ tpc EXCEPT ![t] = "off" ]
  /\ UNCHANGED << previous_print_func, previous_report_to_user_func, mutex, twrap,
                  tfn, orig_print, orig_report >>
  /\ UNCHANGED outside_be

\* a thread calls through a hook: into the wrapper when the hook is one, into
\* the hooked function itself otherwise
CallHook(t, hook) ==
  /\ tpc[t] = "idle"
  /\ IF hook \in Wrappers
     THEN /\ tpc' = [ tpc EXCEPT ![t] = "lock" ]
          /\ twrap' = [ twrap EXCEPT ![t] = hook ]
          /\ tfn' = tfn
     ELSE /\ tpc' = [ tpc EXCEPT ![t] = "direct" ]
          /\ tfn' = [ tfn EXCEPT ![t] = hook ]
          /\ twrap' = twrap
  /\ UNCHANGED << print, report_to_user_func, previous_print_func,
                  previous_report_to_user_func, backend, refcount, mutex,
                  orig_print, orig_report >>
  /\ UNCHANGED outside_be

CallPrint(t) == CallHook(t, print)

CallReport(t) == CallHook(t, report_to_user_func)

\* std::lock_guard<std::mutex> lock (mutex): blocks until the mutex is free
lock_guard(t) ==
  /\ mutex = { }
  /\ mutex' = { t }

\* thread_report_to_user_func without the shared lock
thread_report_to_user_func_unlocked(t) ==
  /\ tpc[t] = "lock"
  /\ twrap[t] = "thread_report_to_user_func"
  /\ mutex' = mutex
  /\ tpc' = [ tpc EXCEPT ![t] = "locked" ]
  /\ tfn' = [ tfn EXCEPT ![t] = previous_report_to_user_func ]
  /\ UNCHANGED << print, report_to_user_func, previous_print_func,
                  previous_report_to_user_func, backend, refcount, twrap,
                  orig_print, orig_report >>
  /\ UNCHANGED outside_be

\* thread_print_func: takes the lock and calls previous_print_func
thread_print_func(t) ==
  /\ tpc[t] = "lock"
  /\ twrap[t] = "thread_print_func"
  /\ lock_guard(t)
  /\ tpc' = [ tpc EXCEPT ![t] = "locked" ]
  /\ tfn' = [ tfn EXCEPT ![t] = previous_print_func ]
  /\ UNCHANGED << print, report_to_user_func, previous_print_func,
                  previous_report_to_user_func, backend, refcount, twrap,
                  orig_print, orig_report >>
  /\ UNCHANGED outside_be

\* thread_report_to_user_func: takes the lock and calls
\* previous_report_to_user_func
thread_report_to_user_func(t) ==
  /\ tpc[t] = "lock"
  /\ twrap[t] = "thread_report_to_user_func"
  /\ lock_guard(t)
  /\ tpc' = [ tpc EXCEPT ![t] = "locked" ]
  /\ tfn' = [ tfn EXCEPT ![t] = previous_report_to_user_func ]
  /\ UNCHANGED << print, report_to_user_func, previous_print_func,
                  previous_report_to_user_func, backend, refcount, twrap,
                  orig_print, orig_report >>
  /\ UNCHANGED outside_be

\* the wrapped function returns and the wrapper's lock_guard releases the mutex
WrapperReturn(t) ==
  /\ tpc[t] = "locked"
  /\ mutex' = mutex \ { t }
  /\ tpc' = [ tpc EXCEPT ![t] = "idle" ]
  /\ twrap' = [ twrap EXCEPT ![t] = "none" ]
  /\ tfn' = [ tfn EXCEPT ![t] = "none" ]
  /\ UNCHANGED << print, report_to_user_func, previous_print_func,
                  previous_report_to_user_func, backend, refcount,
                  orig_print, orig_report >>
  /\ UNCHANGED outside_be

\* a function called through an unwrapped hook returns
DirectReturn(t) ==
  /\ tpc[t] = "direct"
  /\ tpc' = [ tpc EXCEPT ![t] = "idle" ]
  /\ tfn' = [ tfn EXCEPT ![t] = "none" ]
  /\ UNCHANGED << print, report_to_user_func, previous_print_func,
                  previous_report_to_user_func, backend, refcount, mutex, twrap,
                  orig_print, orig_report >>
  /\ UNCHANGED outside_be

NextBE ==
  \/ \E t \in Workers : register_thread(t)
  \/ \E t \in Workers : unregister_thread(t)
  \/ \E t \in Threads : CallPrint(t)
  \/ \E t \in Threads : CallReport(t)
  \/ \E t \in Threads : thread_print_func(t)
  \/ \E t \in Threads : thread_report_to_user_func(t)
  \/ \E t \in Threads : WrapperReturn(t)
  \/ \E t \in Threads : DirectReturn(t)

(***************************************************************************)
(* dwidenoise: the size option, run, and DenoisingFunctor::load_data       *)
(***************************************************************************)
DEFAULT_SIZE == 5

\* Argument ("window").type_integer (0, 50)
SizeMin == 0
SizeMax == 50

type_integer_ok(v) == v >= SizeMin /\ v <= SizeMax

\* the values of the size option the model gives a run: none, or an integer;
\* the accepted ones are 0 .. MaxSize
SizeInputs ==
  { Absent } \cup { Present(v) : v \in (SizeMin - 1 .. MaxSize) \cup { SizeMax + 1 } }

get_option_value(o, default) == IF o = Absent THEN default ELSE ValueOf(o)

\* the spatial size of the input volume and its number of channels
dwi_size == << DimX, DimY, DimZ >>
m == NChannels

Positions == (0 .. DimX - 1) \X (0 .. DimY - 1) \X (0 .. DimZ - 1)

\* is_out_of_bounds (dwi) with the cursor at p
is_out_of_bounds(p) == \E a \in 1 .. 3 : p[a] < 0 \/ p[a] >= dwi_size[a]

\* the input volumes of the model: every sample different and non-zero, every
\* sample the same, every sample zero
Volumes == { "ramp", "flat", "zero" }

LinearIndex(p) == p[1] + DimX * (p[2] + DimY * p[3])

\* dwi.row(3) with the cursor at position p
row3(p) ==
  [ c \in 1 .. m |->
      CASE dwi_kind = "ramp" -> 1 + LinearIndex(p) * m + (c - 1)
        [] dwi_kind = "flat" -> 1
        [] dwi_kind = "zero" -> 0 ]

ZeroColumn == [ c \in 1 .. m |-> 0 ]

\* X.setZero() on a matrix of cols columns
setZero(cols) == [ j \in 1 .. cols |-> ZeroColumn ]

Min(a, b) == IF a < b THEN a ELSE b

\* DenoisingFunctor (dwi, size): the members the constructor sets. X is
\* allocated without initialisation; load_data zeroes it before any read.
DenoisingFunctor(size) ==
  [ extent |-> size \div 2,
    m |-> m,
    n |-> size * size * size,
    r |-> Min(m, size * size * size),
    X |-> setZero(size * size * size),
    pos |-> << 0, 0, 0 >> ]

(***************************************************************************)
(* DenoisingFunctor::operator(): eigenvalues, threshold loop, truncation   *)
(* and sigma.  The float quantities are held as exact fractions num / den; *)
(* a quantity under a square root is held as its square.  A division by    *)
(* zero shows as a fraction whose den is 0.                                *)
(***************************************************************************)
Frac(a, b) == [ num |-> a, den |-> b ]

FracLess(a, b) == a.num * b.den < b.num * a.den

FracAdd(a, b) ==
  IF a.den = b.den THEN Frac(a.num + b.num, a.den)
  ELSE Frac(a.num * b.den + b.num * a.den, a.den * b.den)

FracSub(a, b) ==
  IF a.den = b.den THEN Frac(a.num - b.num, a.den)
  ELSE Frac(a.num * b.den - b.num * a.den, a.den * b.den)

FracDiv(a, b) == Frac(a.num * b.den, a.den * b.num)

FracSquare(a) == Frac(a.num * a.num, a.den * a.den)

\* the window sizes whose extraction stays inside the matrix
OddSizes == { w \in 1..MaxSize : w % 2 = 1 } \cup { DEFAULT_SIZE }

ThN == { w * w * w : w \in OddSizes }

\* the squared singular values JacobiSVD can return: r of them, sorted in
\* decreasing order, none negative
SingularValues(rr) ==
  { sv \in [ 1..rr -> 0..MaxLam ] : \A i \in 1..(rr - 1) : sv[i] >= sv[i + 1] }

\* Eigen::VectorXf lam = s.array().square() / n
eigenvalues(ssq, nn) == [ i \in 1..Len(ssq) |-> Frac(ssq[i], nn) ]

\* the loop  for (i = r; i != 0; --i) { cs += lam[i-1]; clam[i-1] = cs; }
RECURSIVE cs_after(_, _)
cs_after(lm, i) ==
  IF i > Len(lm) THEN Frac(0, 1) ELSE FracAdd(cs_after(lm, i + 1), lm[i])

reverse_cumsum(lm) == [ i \in 1..Len(lm) |-> cs_after(lm, i) ]

\* gam = float(m-p) / float(n)
gam(mm, nn, pp) == Frac(mm - pp, nn)

\* sigsq1 = clam[p] / (r-p) / ((gam<1.0) ? 1.0 : gam)
sigsq1_at(cl, mm, nn, rr, pp) ==
  LET g == gam(mm, nn, pp)
  IN  FracDiv(FracDiv(cl[pp + 1], Frac(rr - pp, 1)),
              IF FracLess(g, Frac(1, 1)) THEN Frac(1, 1) ELSE g)

\* a variant that does not subtract the smallest eigenvalue
sigsq2_at_unshifted(lm, mm, nn, rr, pp) ==
  FracDiv(FracDiv(FracSquare(lm[pp + 1]), Frac(16, 1)), gam(mm, nn, pp))

\* sigsq2 = (lam[p] - lam[r-1]) / 4 / std::sqrt(gam), as its square
sigsq2_at(lm, mm, nn, rr, pp) ==
  FracDiv(FracDiv(FracSquare(FracSub(lm[pp + 1], lm[rr])), Frac(16, 1)),
          gam(mm, nn, pp))

\* if (sigsq2 < sigsq1): both are >= 0, so their squares compare alike
breaks(s1, s2sq) == FracLess(s2sq, FracSquare(s1))

\* s.tail(r-p).setZero()
tail_setZero(ssq, pp) == [ i \in 1..Len(ssq) |-> IF i > pp THEN 0 ELSE ssq[i] ]

NaN == [ nan |-> TRUE, sq |-> Frac(0, 1) ]

\* std::sqrt(f), held as its square
sqrt(f) == [ nan |-> FALSE, sq |-> f ]

\* a variant that takes the square root whether or not the loop broke
sigma_of_always_sqrt(pp, rr, s1) == sqrt(s1)

\* sigma = (p==r) ? NaN : std::sqrt(sigsq1)
sigma_of(pp, rr, s1) == IF pp = rr THEN NaN ELSE sqrt(s1)

th_r == Min(th_m, th_n)

InitTH ==
  /\ th_m \in 1..MaxM
  /\ th_n \in ThN
  /\ th_s \in SingularValues(Min(th_m, th_n))
  /\ lam = << >>
  /\ clam = << >>
  /\ th_p = 0
  /\ sigsq1 = Frac(0, 1)
  /\ sigsq2 = Frac(0, 1)
  /\ broke = FALSE
  /\ th_sigma = NaN
  /\ th_pc = "svd"

QuietTH ==
  /\ th_m = 1
  /\ th_n = 1
  /\ th_s = << 0 >>
  /\ lam = << >>
  /\ clam = << >>
  /\ th_p = 0
  /\ sigsq1 = Frac(0, 1)
  /\ sigsq2 = Frac(0, 1)
  /\ broke = FALSE
  /\ th_sigma = NaN
  /\ th_pc = "off"

\* lines 79-87: the eigenvalues, their reverse cumulative sums, p = 0
threshold_begin ==
  /\ th_pc = "svd"
  /\ lam' = eigenvalues(th_s, th_n)
  /\ clam' = reverse_cumsum(eigenvalues(th_s, th_n))
  /\ th_p' = 0
  /\ th_pc' = "loop"
  /\ UNCHANGED << th_m, th_n, th_s, sigsq1, sigsq2, broke, th_sigma >>
  /\ UNCHANGED outside_th

\* lines 88-95: one pass of  for (p = 0; p < r; ++p)
threshold_loop ==
  /\ th_pc = "loop"
  /\ IF th_p < th_r
     THEN /\ sigsq1' = sigsq1_at(clam, th_m, th_n, th_r, th_p)
          /\ sigsq2' = sigsq2_at(lam, th_m, th_n, th_r, th_p)
          /\ IF breaks(sigsq1_at(clam, th_m, th_n, th_r, th_p),
                       sigsq2_at(lam, th_m, th_n, th_r, th_p))
             THEN /\ broke' = TRUE
                  /\ th_pc' = "tail"
                  /\ UNCHANGED th_p
             ELSE /\ th_p' = th_p + 1
                  /\ UNCHANGED << broke, th_pc >>
     ELSE /\ th_pc' = "tail"
          /\ UNCHANGED << th_p, sigsq1, sigsq2, broke >>
  /\ UNCHANGED << th_m, th_n, th_s, lam, clam, th_sigma >>
  /\ UNCHANGED outside_th

\* lines 96-97: zero the trailing r-p singular values, set sigma
threshold_end ==
  /\ th_pc = "tail"
  /\ th_s' = tail_setZero(th_s, th_p)
  /\ th_sigma' = sigma_of(th_p, th_r, sigsq1)
  /\ th_pc' = "done"
  /\ UNCHANGED << th_m, th_n, lam, clam, th_p, sigsq1, sigsq2, broke >>
  /\ UNCHANGED outside_th

NextTH == threshold_begin \/ threshold_loop \/ threshold_end

(***************************************************************************)
(* dwidenoise: run, the loop over the volume, load_data and the output     *)
(***************************************************************************)
\* sigma as the functor holds it: the value the threshold loop gave, or, for
\* a matrix whose SVD the model does not compute, the mark that it is the
\* value the loop gives on that matrix
SigmaValue(v) == [ svd |-> FALSE, value |-> v ]
SigmaOfSvd == [ svd |-> TRUE, value |-> NaN ]

\* no channel vector written yet
NoRow == [ form |-> "none", col |-> 0, values |-> ZeroColumn, of |-> << >> ]

InitDN ==
  /\ dwi_kind \in Volumes
  /\ with_noise \in BOOLEAN
  /\ centre_col = -1
  /\ X_form = "data"
  /\ sigma = SigmaValue(NaN)
  /\ out_index = << 0, 0, 0 >>
  /\ noise_index = << 0, 0, 0 >>
  /\ out_row = NoRow
  /\ noise_value = SigmaValue(NaN)
  /\ writes = { }
  /\ later_call = FALSE
  /\ dn_pc = "start"
  /\ window_size = 0
  /\ extent = 0
  /\ n = 0
  /\ X = << >>
  /\ pos = << 0, 0, 0 >>
  /\ index = << 0, 0, 0 >>
  /\ k = 0
  /\ centre = << 0, 0, 0 >>
  /\ reads = { }

\* the denoising part of a program that is not dwidenoise
QuietDN ==
  /\ InitDN
  /\ dwi_kind = "zero"
  /\ with_noise = FALSE

\* run (): the size option is parsed against its range, then the functor is
\* constructed with its value (or the default)
run(o) ==
  /\ dn_pc = "start"
  /\ IF o # Absent /\ ~ type_integer_ok(ValueOf(o))
     THEN /\ dn_pc' = "rejected"
          /\ UNCHANGED << window_size, extent, n, X, pos >>
     ELSE LET size == get_option_value(o, DEFAULT_SIZE)
              func == DenoisingFunctor(size)
          IN  /\ dn_pc' = "ready"
              /\ window_size' = size
              /\ extent' = func.extent
              /\ n' = func.n
              /\ X' = func.X
              /\ pos' = func.pos
  /\ UNCHANGED << dwi_kind, index, k, centre, reads, centre_col, with_noise,
                  X_form, sigma, out_index, noise_index, out_row, noise_value,
                  writes, later_call >>
  /\ UNCHANGED outside_dn

\* ThreadedLoop (dwi_in, 0, 3).run (func, dwi_in, dwi_out[, noise]): the loop
\* puts the cursors of its images on a position of the volume and calls the
\* functor, once the previous call has returned. Of what is written to the
\* output images the model keeps the writes of the call in progress.
ThreadedLoop_next(p) ==
  /\ \/ dn_pc = "ready"
     \/ dn_pc = "stored" /\ ~ with_noise
     \/ dn_pc = "noise_stored"
  /\ index' = p
  /\ out_index' = p
  /\ noise_index' = p
  /\ centre' = p
  /\ out_row' = NoRow
  /\ noise_value' = SigmaValue(NaN)
  /\ writes' = { }
  /\ later_call' = ( dn_pc # "ready" )
  /\ dn_pc' = "voxel"
  /\ UNCHANGED << dwi_kind, window_size, extent, n, X, pos, k, reads, centre_col,
                  with_noise, X_form, sigma >>
  /\ UNCHANGED outside_dn

\* load_data without X.setZero(): X keeps what the previous call left
load_data_begin_keep ==
  /\ dn_pc = "voxel"
  /\ pos' = index
  /\ X' = X
  /\ k' = 0
  /\ index' = << index[1] - extent, index[2] - extent, index[3] - extent >>
  /\ reads' = { }
  /\ centre_col' = -1
  /\ X_form' = "data"
  /\ dn_pc' = "scan"
  /\ UNCHANGED << dwi_kind, window_size, extent, n, centre, with_noise, sigma,
                  out_index, noise_index, out_row, noise_value, writes,
                  later_call >>
  /\ UNCHANGED outside_dn

\* load_data up to the first iteration of the innermost loop
load_data_begin ==
  /\ dn_pc = "voxel"
  /\ pos' = index
  /\ X' = setZero(n)
  /\ k' = 0
  /\ index' = << index[1] - extent, index[2] - extent, index[3] - extent >>
  /\ reads' = { }
  /\ centre_col' = -1
  /\ X_form' = "data"
  /\ dn_pc' = "scan"
  /\ UNCHANGED << dwi_kind, window_size, extent, n, centre, with_noise, sigma,
                  out_index, noise_index, out_row, noise_value, writes,
                  later_call >>
  /\ UNCHANGED outside_dn

\* "reset image position" with the cursor left at cur by the loops
reset_image_position_xy(cur) == << pos[1], pos[2], cur[3] >>

reset_image_position(cur) == << pos[1], pos[2], pos[3] >>

\* One iteration of the innermost loop of load_data and the loop increments
\* that follow it. load: whether dwi.row(3) is copied into X.col(k); knext:
\* the value of k after the iteration. A copy into a column k >= n is outside
\* the matrix: Eigen's assertion aborts the run, or (assertions compiled out)
\* the write lands beyond X and what the run does from there on is undefined.
scan_step(load, knext) ==
  /\ dn_pc = "scan"
  /\ IF load /\ k >= n
     THEN /\ dn_pc' \in { "aborted", "undefined" }
          /\ UNCHANGED << X, reads, k, index, centre_col >>
     ELSE /\ reads' = IF load THEN reads \cup { index } ELSE reads
          /\ centre_col' = IF load /\ index = pos THEN k ELSE centre_col
          /\ X' = IF load THEN [ X EXCEPT ![k + 1] = row3(index) ] ELSE X
          /\ k' = knext
          /\ IF index[1] + 1 <= pos[1] + extent
             THEN /\ index' = << index[1] + 1, index[2], index[3] >>
                  /\ dn_pc' = "scan"
             ELSE IF index[2] + 1 <= pos[2] + extent
             THEN /\ index' = << pos[1] - extent, index[2] + 1, index[3] >>
                  /\ dn_pc' = "scan"
             ELSE IF index[3] + 1 <= pos[3] + extent
             THEN /\ index' = << pos[1] - extent, pos[2] - extent, index[3] + 1 >>
                  /\ dn_pc' = "scan"
             ELSE /\ index' = reset_image_position(
                                << index[1] + 1, index[2] + 1, index[3] + 1 >>)
                  /\ dn_pc' = "loaded"
  /\ UNCHANGED << dwi_kind, window_size, extent, n, pos, centre, with_noise,
                  X_form, sigma, out_index, noise_index, out_row, noise_value,
                  writes, later_call >>
  /\ UNCHANGED outside_dn

\* load_data reading at every offset, in the volume or not
load_data_step_unchecked == scan_step(TRUE, k + 1)

\* load_data advancing the column only after an offset inside the volume
load_data_step_skipping ==
  scan_step(~ is_out_of_bounds(index), IF is_out_of_bounds(index) THEN k ELSE k + 1)

\* load_data, lines 118-126: if (! is_out_of_bounds(dwi)) X.col(k) = dwi.row(3),
\* then ++dwi.index(0), ++k
load_data_step == scan_step(~ is_out_of_bounds(index), k + 1)

(***************************************************************************)
(* DenoisingFunctor::operator() after load_data: centring, SVD, threshold, *)
(* reconstruction and the writes to the output images.  The model computes *)
(* the SVD of the zero matrix only; for any other centred matrix X keeps   *)
(* the window's samples and X_form records that what X stands for is their *)
(* reconstruction from the singular values the threshold loop kept.        *)
(***************************************************************************)
\* the sum of row c over the columns lo .. hi, by halves
RECURSIVE row_sum(_, _, _, _)
row_sum(mat, c, lo, hi) ==
  IF lo > hi THEN 0
  ELSE IF lo = hi THEN mat[lo][c]
  ELSE row_sum(mat, c, lo, (lo + hi) \div 2) + row_sum(mat, c, ((lo + hi) \div 2) + 1, hi)

\* Xm = X.rowwise().mean()
rowwise_mean(mat) ==
  [ c \in 1 .. m |-> Frac(row_sum(mat, c, 1, Len(mat)), Len(mat)) ]

\* X.colwise() -= Xm, on one column
colwise_minus(col, mean) == [ c \in 1 .. m |-> FracSub(Frac(col[c], 1), mean[c]) ]

\* every entry of X is 0 once the mean has been subtracted
IsZeroCentred(mat, mean) ==
  \A j \in 1 .. Len(mat) : \A c \in 1 .. m : colwise_minus(mat[j], mean)[c].num = 0

\* svd.singularValues() of a zero matrix: rr zeros
singularValues_of_zero(rr) == [ i \in 1 .. rr |-> 0 ]

\* the loop  for (p = 0; p < r; ++p) { ... if (sigsq2 < sigsq1) break; }
\* from pass pp on: the value of p it ends with
RECURSIVE threshold_p(_, _, _, _, _, _)
threshold_p(lm, cl, mm, nn, rr, pp) ==
  IF pp >= rr THEN rr
  ELSE IF breaks(sigsq1_at(cl, mm, nn, rr, pp), sigsq2_at(lm, mm, nn, rr, pp))
  THEN pp
  ELSE threshold_p(lm, cl, mm, nn, rr, pp + 1)

\* the reconstruction without the mean added back
add_mean_omitted(col, mean) == col

\* X.colwise() += Xm, on one column; used where the mean is a whole number
add_mean(col, mean) == [ c \in 1 .. m |-> col[c] + mean[c].num \div mean[c].den ]

\* lines 99-100 when every singular value is 0, truncated or not:
\* U * 0 * V^T is the zero matrix, to which the mean is added back
restored_from_zero(nn, mean) ==
  CHOOSE mat \in { [ j \in 1 .. nn |-> col ] : col \in { add_mean(ZeroColumn, mean) } } :
    TRUE

\* lines 75-100 on the matrix mat with row means mean: what they leave in X
\* and sigma
denoised_given(mat, mean) ==
  LET nn == Len(mat)
      rr == Min(m, nn)
  IN  IF IsZeroCentred(mat, mean)
      THEN LET lm == eigenvalues(singularValues_of_zero(rr), nn)
               cl == reverse_cumsum(lm)
               pp == threshold_p(lm, cl, m, nn, rr, 0)
           IN  [ X |-> restored_from_zero(nn, mean),
                 X_form |-> "data",
                 sigma |-> SigmaValue(sigma_of(pp, rr, sigsq1_at(cl, m, nn, rr, rr - 1))) ]
      ELSE [ X |-> mat, X_form |-> "svd", sigma |-> SigmaOfSvd ]

\* lines 74-100 on the matrix mat: what they leave in X and sigma
denoised(mat) ==
  CHOOSE left \in { denoised_given(mat, mean) : mean \in { rowwise_mean(mat) } } : TRUE

\* operator() (dwi, out), lines 73-100
operator_denoise ==
  /\ dn_pc = "loaded"
  /\ \E left \in { denoised(X) } :
       /\ X' = left.X
       /\ X_form' = left.X_form
       /\ sigma' = left.sigma
  /\ dn_pc' = "restored"
  /\ UNCHANGED << dwi_kind, window_size, extent, n, pos, index, k, centre, reads,
                  centre_col, with_noise, out_index, noise_index, out_row,
                  noise_value, writes, later_call >>
  /\ UNCHANGED outside_dn

\* the column index n/2 of line 103
out_col == n \div 2

\* X.col(j) of the matrix X stands for
col_of(j) ==
  [ form |-> X_form,
    col |-> j,
    values |-> X[j + 1],
    of |-> IF X_form = "svd" THEN X ELSE << >> ]

\* operator() (dwi, out), lines 101-103: assign_pos_of (dwi).to (out), then
\* out.row(3) = X.col(n/2)
operator_store ==
  /\ dn_pc = "restored"
  /\ out_index' = index
  /\ out_row' = col_of(out_col)
  /\ writes' = writes \cup { [ image |-> "out", at |-> index ] }
  /\ dn_pc' = "stored"
  /\ UNCHANGED << dwi_kind, window_size, extent, n, X, pos, index, k, centre,
                  reads, centre_col, with_noise, X_form, sigma, noise_index,
                  noise_value, later_call >>
  /\ UNCHANGED outside_dn

\* operator() (dwi, out, noise), lines 108-110, after operator() (dwi, out)
\* has returned: assign_pos_of (dwi).to (noise), then noise.value() = sigma
operator_noise ==
  /\ dn_pc = "stored"
  /\ with_noise
  /\ noise_index' = index
  /\ noise_value' = sigma
  /\ writes' = writes \cup { [ image |-> "noise", at |-> index ] }
  /\ dn_pc' = "noise_stored"
  /\ UNCHANGED << dwi_kind, window_size, extent, n, X, pos, index, k, centre,
                  reads, centre_col, with_noise, X_form, sigma, out_index,
                  out_row, later_call >>
  /\ UNCHANGED outside_dn

NextDN ==
  \/ \E o \in SizeInputs : run(o)
  \/ \E p \in Positions : ThreadedLoop_next(p)
  \/ load_data_begin
  \/ load_data_step
  \/ operator_denoise
  \/ operator_store
  \/ operator_noise

(***************************************************************************)
(* Specifications                                                          *)
(***************************************************************************)
NextNT == CallNumberOfThreads \/ SetEnv

InitThreads == InitNT /\ QuietBE /\ QuietDN /\ QuietTH

SpecThreads == InitThreads /\ [][NextNT]_vars

InitBackend == InitBE /\ QuietNT /\ QuietDN /\ QuietTH

SpecBackend == InitBackend /\ [][NextBE]_vars

InitDenoise == InitDN /\ QuietNT /\ QuietBE /\ QuietTH

SpecDenoise == InitDenoise /\ [][NextDN]_vars

InitThreshold == InitTH /\ QuietNT /\ QuietBE /\ QuietDN

SpecThreshold == InitThreshold /\ [][NextTH]_vars

(***************************************************************************)
(* Claims about the thread-count resolution (checked under SpecThreads)    *)
(***************************************************************************)

\* C1: every value returned by number_of_threads is >= 1, whatever the
\* option, the environment value and the configuration / hardware value are.
C1_ReturnedAtLeastOne ==
  nt_result.kind = "value" => nt_result.value >= 1

\* the resolution order as the specification words it: the option only if it
\* is present and > 0, else the environment value if set, else the
\* configuration value defaulting to the hardware concurrency
ClaimedResolution ==
  IF nthreads_opt # Absent /\ ValueOf(nthreads_opt) > 0
  THEN [ kind |-> "value", value |-> ValueOf(nthreads_opt) ]
  ELSE IF from_env # Absent
  THEN IF to_size_t(ValueOf(from_env)).ok
       THEN [ kind |-> "value", value |-> to_size_t(ValueOf(from_env)).value ]
       ELSE [ kind |-> "error", value |-> 0 ]
  ELSE [ kind |-> "value", value |-> Config_get_int(config_nthreads, hardware_concurrency) ]

\* C2: on the first call the result is the one of the first matching source
\* in the order option (present and > 0), environment, configuration; a
\* present option that is not > 0 does not win.
C2_FirstMatchWins ==
  [][ (calls = 0 /\ calls' = 1)
        => /\ nt_result'.kind = ClaimedResolution.kind
           /\ nt_result'.value = ClaimedResolution.value ]_vars

\* C3: once a call has returned a value, every later call returns that same
\* value and does not consult the option, environment or configuration.
C3_CachedAfterSuccess ==
  [][ (nt_result.kind = "value" /\ calls' # calls)
        => nt_result' = Returned(nt_result.value, FALSE) ]_vars

\* C4: with no nthreads option and an MRTRIX_NTHREADS that does not parse as
\* an unsigned integer, the resolution throws and stores no thread count.
C4_UnparseableEnvFails ==
  [][ ( /\ calls' # calls
        /\ number_of_threads_cache = 0
        /\ nthreads_opt = Absent
        /\ from_env # Absent
        /\ ~ to_size_t(ValueOf(from_env)).ok )
        => ( nt_result'.kind = "error" /\ number_of_threads_cache' = 0 ) ]_vars

C4_Witness ==
  /\ calls > 0
  /\ nt_result.kind = "error"
  /\ nthreads_opt = Absent
  /\ from_env # Absent
  /\ ~ to_size_t(ValueOf(from_env)).ok
  /\ number_of_threads_cache = 0

(***************************************************************************)
(* Claims about the Backend (checked under SpecBackend)                    *)
(***************************************************************************)
HooksInstalled ==
  /\ print = "thread_print_func"
  /\ report_to_user_func = "thread_report_to_user_func"

\* C5: the serialised functions are the hooks exactly while the reference
\* count is >= 1; while they are, the recorded originals are the functions
\* installed before the swap, and once the count is back to 0 the hooks are
\* those functions again.
C5_HooksFollowRefcount ==
  /\ (refcount >= 1) <=> HooksInstalled
  /\ (refcount >= 1) <=> (print \in Wrappers \/ report_to_user_func \in Wrappers)
  /\ refcount >= 1 => /\ previous_print_func = orig_print
                      /\ previous_report_to_user_func = orig_report
  /\ refcount = 0 => /\ print = orig_print
                     /\ report_to_user_func = orig_report

\* the hooks have been swapped in and, with the last reference gone, restored
C5_Witness ==
  /\ refcount = 0
  /\ ~ backend
  /\ previous_print_func = orig_print
  /\ previous_report_to_user_func = orig_report
  /\ print = orig_print
  /\ report_to_user_func = orig_report

\* the threads executing a hooked print or report function
InOriginal == { t \in Threads : tpc[t] \in { "locked", "direct" } }

\* C6: while the hooks are installed at most one thread is inside an
\* original print or report function, whichever of the two wrappers the
\* threads came through.
C6_MutualExclusion ==
  HooksInstalled => Cardinality(InOriginal) <= 1

\* one thread is inside the original print function through its wrapper
\* while another waits in the report wrapper
C6_Witness ==
  /\ HooksInstalled
  /\ \E t, u \in Threads :
       /\ t # u
       /\ tpc[t] = "locked"
       /\ twrap[t] = "thread_print_func"
       /\ tfn[t] = orig_print
       /\ tpc[u] = "lock"
       /\ twrap[u] = "thread_report_to_user_func"

\* C18: whatever constructions and destructions of the Backend have taken
\* place, neither recorded original is one of the two wrappers, and the
\* function a thread runs while it holds the lock is not a wrapper: a wrapped
\* call never re-enters a wrapper, so it neither blocks on the mutex it
\* holds nor recurses.
C18_PreviousNeverWrapper ==
  /\ previous_print_func \notin Wrappers
  /\ previous_report_to_user_func \notin Wrappers
  /\ \A t \in Threads : tpc[t] = "locked" => tfn[t] \notin Wrappers

C18_Witness ==
  /\ backend
  /\ previous_print_func = orig_print
  /\ previous_report_to_user_func = orig_report
  /\ \E t \in Workers :
       tpc[t] = "locked" /\ twrap[t] = "thread_report_to_user_func"
                         /\ tfn[t] = orig_report

(***************************************************************************)
(* Claims about the window extraction and the size option (checked under   *)
(* SpecDenoise)                                                            *)
(***************************************************************************)
\* the edge length of the window and the number of offsets it scans
WindowEdge == 2 * extent + 1
WindowOffsets == WindowEdge * WindowEdge * WindowEdge

\* the position of the j-th offset (from 0) of the scan around the centre:
\* x runs fastest, then y, then z
PositionAt(j) ==
  << centre[1] + (j % WindowEdge) - extent,
     centre[2] + ((j \div WindowEdge) % WindowEdge) - extent,
     centre[3] + (j \div (WindowEdge * WindowEdge)) - extent >>

\* the scan indices of the offsets that lie in the volume, in scan order
InVolumeOffsets ==
  SelectSeq([ j \in 1 .. WindowOffsets |-> j - 1 ],
            LAMBDA j : PositionAt(j) \in Positions)

AtEdgeOrCorner == Len(InVolumeOffsets) < WindowOffsets

C8_ReadsInVolume ==
  \A p \in reads : p \in Positions

\* a window that sticks out of the volume has been extracted, and only its
\* in-volume positions were read
C8_Witness ==
  /\ dn_pc = "loaded"
  /\ extent >= 1
  /\ AtEdgeOrCorner
  /\ reads = { PositionAt(InVolumeOffsets[i]) : i \in 1 .. Len(InVolumeOffsets) }
  /\ Cardinality(reads) < WindowOffsets

\* C9: when load_data has returned, the cursor of the input volume is at the
\* centre position it was given.
C9_CursorRestored ==
  dn_pc = "loaded" => index = centre

\* a window of extent >= 1 has been extracted around a centre other than the
\* origin and the cursor is back on it
C9_Witness ==
  /\ dn_pc = "loaded"
  /\ extent >= 1
  /\ centre # << 0, 0, 0 >>
  /\ index = centre

\* C10: a run that got past the option parsing, so that the functor was
\* constructed, has a window size >= 1.
C10_NonPositiveSizeRejected ==
  dn_pc \notin { "start", "rejected" } => window_size >= 1

\* C17: for every window size the option accepts and every centre position,
\* each column index k at which load_data writes into X satisfies k < n.
C17_ColumnIndexInsideMatrix ==
  ( dn_pc = "scan" /\ ~ is_out_of_bounds(index) ) => k < n

(***************************************************************************)
(* Claims about the functor's call and its output (checked under           *)
(* SpecDenoise)                                                            *)
(***************************************************************************)
\* the call in progress has written its channel vector to out
Stored == dn_pc \in { "stored", "noise_stored" }

\* the window around the centre as the input volume alone gives it: one
\* column per offset of the scan, zero where the offset is outside the volume
WindowOf ==
  [ j \in 1 .. n |-> IF PositionAt(j - 1) \in Positions
                     THEN row3(PositionAt(j - 1))
                     ELSE ZeroColumn ]

\* C13: at every centre position, edges and corners included, the column
\* written to the output voxel is the column load_data copied the centre
\* position's own channel vector into, the one of offset (0,0,0) in the scan
\* order, whatever the values of the columns are.
C13_CentreColumnWritten ==
  Stored =>
    /\ centre_col >= 0
    /\ out_row.col = centre_col
    /\ PositionAt(out_row.col) = centre

HomogeneousWindow == \A win \in { WindowOf } : \A j \in 1 .. n : win[j] = win[1]

C16_WritesAtCentreOnly ==
  /\ \A w \in writes : w.image \in { "out", "noise" } /\ w.at = centre
  /\ dn_pc = "stored" =>
       /\ writes = { [ image |-> "out", at |-> centre ] }
       /\ out_index = centre
  /\ dn_pc = "noise_stored" =>
       /\ with_noise
       /\ writes = { [ image |-> "out", at |-> centre ],
                     [ image |-> "noise", at |-> centre ] }
       /\ out_index = centre
       /\ noise_index = centre
       /\ noise_value = sigma

C16_Witness ==
  /\ dn_pc = "noise_stored"
  /\ with_noise
  /\ extent >= 1
  /\ centre = << DimX - 1, DimY - 1, DimZ - 1 >>
  /\ index = centre
  /\ [ image |-> "noise", at |-> centre ] \in writes
  /\ [ image |-> "out", at |-> centre ] \in writes

(***************************************************************************)
(* Claims about the threshold loop (checked under SpecThreshold)           *)
(***************************************************************************)
\* sigsq2 <= sigsq1 at loop index q, equality included
NotExceedingAt(q) ==
  ~ FracLess(FracSquare(sigsq1_at(clam, th_m, th_n, th_r, q)),
             sigsq2_at(lam, th_m, th_n, th_r, q))

\* the smallest index in 0..r-1 at which sigsq2 <= sigsq1, and r if there is none
FirstNotExceeding ==
  IF \E q \in 0..(th_r - 1) : NotExceedingAt(q)
  THEN CHOOSE q \in 0..(th_r - 1) :
         NotExceedingAt(q) /\ \A j \in 0..(q - 1) : ~ NotExceedingAt(j)
  ELSE th_r

\* C11: the loop ends with p the smallest index in 0..r-1 at which
\* sigsq2 <= sigsq1 (equality included), and exactly the singular values
\* after the first p are zeroed.
C11_StopsAtFirstNotExceeding ==
  th_pc = "done" =>
    /\ th_p = FirstNotExceeding
    /\ th_s = [ i \in 1..th_r |->
                  IF i > FirstNotExceeding THEN 0 ELSE lam[i].num ]

C19_ThresholdWellDefined ==
  /\ ( th_pc = "loop" /\ th_p < th_r ) =>
       /\ th_m - th_p >= 1
       /\ th_r - th_p >= 1
       /\ gam(th_m, th_n, th_p).num > 0 /\ gam(th_m, th_n, th_p).den > 0
       /\ sigsq1_at(clam, th_m, th_n, th_r, th_p).den > 0
       /\ sigsq2_at(lam, th_m, th_n, th_r, th_p).den > 0
  /\ ( th_pc \in { "tail", "done" } /\ th_p >= th_r - 1 ) => sigsq2.num = 0
  /\ ( th_pc = "done" /\ lam[th_r].num > 0 ) =>
       ( th_p <= th_r - 1 /\ ~ th_sigma.nan )
  /\ ( th_pc = "done" /\ th_sigma.nan ) => lam[th_r].num = 0

C19_Witness ==
  /\ th_pc = "done"
  /\ th_r >= 2
  /\ lam[th_r].num > 0
  /\ th_p = th_r - 1
  /\ ~ th_sigma.nan
====
